---- MODULE Spec2Model ----
(***************************************************************************)
(* Budget tracker (IA-Alp/budget-tracker/app.py): the Category and         *)
(* Transaction tables, the request handlers that change them, and the      *)
(* read views derived from them.                                           *)
(*                                                                         *)
(* Conventions of the model                                                *)
(*   - a Python str is a sequence of one-character strings;                *)
(*   - an optional value (None or a value, SQL NULL or a value) is a       *)
(*     sequence of length 0 or 1: None == << >>, Some(x) == <<x>>;         *)
(*   - a date is <<year, month, day>>;                                     *)
(*   - an amount (a Python float) is an integer number of hundredths; the  *)
(*     amount texts of the model have at most two fractional digits, so    *)
(*     the values are exact.  inf, nan, exponents and float rounding are   *)
(*     outside the model.                                                  *)
(***************************************************************************)
EXTENDS Integers, Sequences, FiniteSets, TLC

None == << >>
Some(x) == <<x>>

(***************************************************************************)
(* Text helpers                                                            *)
(***************************************************************************)
Digits == {"0", "1", "2", "3", "4", "5", "6", "7", "8", "9"}

DigitVal(c) ==
    CASE c = "0" -> 0 [] c = "1" -> 1 [] c = "2" -> 2 [] c = "3" -> 3
      [] c = "4" -> 4 [] c = "5" -> 5 [] c = "6" -> 6 [] c = "7" -> 7
      [] c = "8" -> 8 [] c = "9" -> 9

DigitChar(d) ==
    CASE d = 0 -> "0" [] d = 1 -> "1" [] d = 2 -> "2" [] d = 3 -> "3"
      [] d = 4 -> "4" [] d = 5 -> "5" [] d = 6 -> "6" [] d = 7 -> "7"
      [] d = 8 -> "8" [] d = 9 -> "9"

IsSpace(c) == c = " "

AllDigits(s) == \A i \in 1..Len(s) : s[i] \in Digits

\* the value of a string of decimal digits ("" reads as 0)
RECURSIVE DigitsVal(_)
DigitsVal(s) ==
    IF s = << >> THEN 0
    ELSE 10 * DigitsVal(SubSeq(s, 1, Len(s) - 1)) + DigitVal(s[Len(s)])

\* str(n) for n >= 0
RECURSIVE IntStr(_)
IntStr(n) ==
    IF n < 10 THEN <<DigitChar(n)>>
    ELSE Append(IntStr(n \div 10), DigitChar(n % 10))

\* format(n, "0{w}d") for n >= 0: zero-padded on the left to width w
RECURSIVE ZeroPad(_, _)
ZeroPad(s, w) == IF Len(s) >= w THEN s ELSE ZeroPad(<<"0">> \o s, w)

\* str.strip()
RECURSIVE lstrip(_)
lstrip(s) == IF s # << >> /\ IsSpace(s[1]) THEN lstrip(Tail(s)) ELSE s

RECURSIVE rstrip(_)
rstrip(s) ==
    IF s # << >> /\ IsSpace(s[Len(s)]) THEN rstrip(SubSeq(s, 1, Len(s) - 1)) ELSE s

\* a variant of strip that strips the left end only
strip_left_only(s) == lstrip(s)

strip(s) == rstrip(lstrip(s))

\* the index of the first occurrence of c in s at or after i, 0 when there is none
RECURSIVE Find(_, _, _)
Find(s, c, i) ==
    IF i > Len(s) THEN 0 ELSE IF s[i] = c THEN i ELSE Find(s, c, i + 1)

(***************************************************************************)
(* float(text): the grammar of Python's float() over the characters of the *)
(* model (digits, sign, point, space, letters that spell no float).        *)
(***************************************************************************)
Unsigned(s) == IF s # << >> /\ s[1] \in {"+", "-"} THEN Tail(s) ELSE s

IntPart(s) ==
    LET u == Unsigned(s)
        p == Find(u, ".", 1)
    IN  IF p = 0 THEN u ELSE SubSeq(u, 1, p - 1)

FracPart(s) ==
    LET u == Unsigned(s)
        p == Find(u, ".", 1)
    IN  IF p = 0 THEN << >> ELSE SubSeq(u, p + 1, Len(u))

\* float() accepts the text (after its own strip)
FloatOK(text) ==
    LET s == strip(text)
    IN  /\ AllDigits(IntPart(s))
        /\ AllDigits(FracPart(s))
        /\ Len(IntPart(s)) + Len(FracPart(s)) > 0

\* float() of an accepted text, in hundredths
FloatVal(text) ==
    LET s == strip(text)
        f == SubSeq(FracPart(s) \o <<"0", "0">>, 1, 2)
        m == DigitsVal(IntPart(s)) * 100 + DigitsVal(f)
    IN  IF s[1] = "-" THEN 0 - m ELSE m

\* a variant of parse_float whose except branch returns 0.0, not the default
parse_float_zero(value, default) ==
    IF value = None THEN default
    ELSE LET s == strip(value[1])
         IN  IF FloatOK(s) THEN FloatVal(s) ELSE 0

\* app.py parse_float(value, default): value is None or Some(text).  The
\* ValueError of float() is caught: the default is returned
parse_float(value, default) ==
    IF value = None THEN default
    ELSE LET s == strip(value[1])
         IN  IF FloatOK(s) THEN FloatVal(s) ELSE default

(***************************************************************************)
(* Dates: datetime.strptime(text, '%Y-%m-%d').date() and date.isoformat()  *)
(***************************************************************************)
IsLeap(y) == (y % 4 = 0 /\ y % 100 # 0) \/ y % 400 = 0

DaysInMonth(y, m) ==
    IF m = 2 THEN (IF IsLeap(y) THEN 29 ELSE 28)
    ELSE IF m \in {4, 6, 9, 11} THEN 30 ELSE 31

\* the directive %m: 1[0-2] | 0[1-9] | [1-9]
MatchesMonth(s) ==
    \/ Len(s) = 2 /\ s[1] = "1" /\ s[2] \in {"0", "1", "2"}
    \/ Len(s) = 2 /\ s[1] = "0" /\ s[2] \in Digits \ {"0"}
    \/ Len(s) = 1 /\ s[1] \in Digits \ {"0"}

\* the directive %d: 3[0-1] | [1-2]\d | 0[1-9] | [1-9] | " "[1-9]
MatchesDay(s) ==
    \/ Len(s) = 2 /\ s[1] = "3" /\ s[2] \in {"0", "1"}
    \/ Len(s) = 2 /\ s[1] \in {"1", "2"} /\ s[2] \in Digits
    \/ Len(s) = 2 /\ s[1] \in {"0", " "} /\ s[2] \in Digits \ {"0"}
    \/ Len(s) = 1 /\ s[1] \in Digits \ {"0"}

\* None stands for ValueError, Some(<<y, m, d>>) for the parsed date.  %Y is
\* exactly four digits; the month field ends at the next "-"; whatever follows
\* must be the day field ("unconverted data remains" otherwise); the fields
\* must then name a calendar date (year >= 1, day within the month).
strptime(text) ==
    LET p == Find(text, "-", 6)
        ys == SubSeq(text, 1, 4)
        ms == SubSeq(text, 6, p - 1)
        ds == SubSeq(text, p + 1, Len(text))
    IN  IF /\ Len(text) >= 5
           /\ AllDigits(ys)
           /\ text[5] = "-"
           /\ p # 0
           /\ MatchesMonth(ms)
           /\ MatchesDay(ds)
        THEN LET y == DigitsVal(ys)
                 m == DigitsVal(ms)
                 d == DigitsVal(strip(ds))
             IN  IF y >= 1 /\ d <= DaysInMonth(y, m) THEN Some(<<y, m, d>>) ELSE None
        ELSE None

\* date.isoformat(): "YYYY-MM-DD", each field zero-padded
isoformat(dt) ==
    ZeroPad(IntStr(dt[1]), 4) \o <<"-">> \o ZeroPad(IntStr(dt[2]), 2)
        \o <<"-">> \o ZeroPad(IntStr(dt[3]), 2)

\* SQLite strftime('%Y-%m', date) over the stored ISO text: its first 7 characters
strftime_Ym(dt) == SubSeq(isoformat(dt), 1, 7)

(***************************************************************************)
(* Lower-casing.  A category name is a Python str; the duplicate check     *)
(* lower-cases the candidate in Python (str.lower, full Unicode) and the   *)
(* stored names in the database (SQLite lower(), which folds only the      *)
(* ASCII letters A-Z).  "U+00C9" and "U+00E9" each stand for the single    *)
(* character with that code point (capital and small e with acute).        *)
(***************************************************************************)
py_lower_char(c) ==
    CASE c = "F" -> "f"
      [] c = "U+00C9" -> "U+00E9"
      [] OTHER -> c

sql_lower_char(c) ==
    CASE c = "F" -> "f"
      [] OTHER -> c

py_lower(s) == [i \in 1..Len(s) |-> py_lower_char(s[i])]

sql_lower(s) == [i \in 1..Len(s) |-> sql_lower_char(s[i])]

(***************************************************************************)
(* api_summary: the six trailing month labels                              *)
(***************************************************************************)
\* the quotient rounded toward zero, as C's / rounds
TruncDiv(a, b) == IF a >= 0 THEN a \div b ELSE 0 - ((0 - a) \div b)

\* a variant of month_pair whose year uses the truncating quotient
month_pair_trunc(td, offset) ==
    LET y == td[1] + TruncDiv(td[2] - 1 + offset, 12)
        m == ((td[2] - 1 + offset) % 12) + 1
    IN  IntStr(y) \o <<"-">> \o ZeroPad(IntStr(m), 2)

\* Python's // and % floor, as \div and % do here
month_pair(td, offset) ==
    LET y == td[1] + ((td[2] - 1 + offset) \div 12)
        m == ((td[2] - 1 + offset) % 12) + 1
    IN  IntStr(y) \o <<"-">> \o ZeroPad(IntStr(m), 2)

labels(td) == [i \in 1..6 |-> month_pair(td, i - 6)]

(***************************************************************************)
(* State                                                                   *)
(***************************************************************************)
VARIABLES
    category,       \* the category table: rows [id, name]
    transaction,    \* the transaction table: rows [id, description, amount, date, category_id]
    session,        \* db.session between requests: the Transaction objects it holds modified
    today,          \* date.today()
    request,        \* the last request: [op, id, form]
    response,       \* its response: [status, flash, body]
    before,         \* the two tables and the date as they were when the last request began
    pending         \* per worker: the add_category request that has passed its
                    \* duplicate check and has not committed yet, or None

vars == <<category, transaction, session, today, request, response, before, pending>>

\* the requests the server handles at the same time (one thread each)
NumWorkers == 2

Workers == 1..NumWorkers

NonePending == [w \in Workers |-> None]

\* the largest row ids the model lets the tables hand out
MaxTxId == 2
MaxCatId == 2

\* request.form: every key read by a handler, None where the request has none
NoForm == [description |-> None, amount |-> None, date |-> None,
           category |-> None, name |-> None]

\* Python's (x or y) on an optional text: None and "" are falsy
OrElse(value, default) ==
    IF value = None \/ value[1] = << >> THEN default ELSE value[1]

\* Model.query.get(id) on a table: None or Some(row)
Get(table, id) ==
    IF \E r \in table : r.id = id THEN Some(CHOOSE r \in table : r.id = id) ELSE None

\* Transaction.query.get(id) through the session: the object the session
\* already holds modified, else the stored row
GetTx(id) ==
    IF \E d \in session : d.id = id THEN Get(session, id) ELSE Get(transaction, id)

\* Category.query.get(cat_id) with the form's text as the key: SQLite compares
\* the integer key with the text by value, so only digit strings can match
GetCategory(text) ==
    IF text # << >> /\ AllDigits(text) THEN Get(category, DigitsVal(text)) ELSE None

\* the rowid SQLite gives the next inserted row (INTEGER PRIMARY KEY without
\* AUTOINCREMENT): one more than the largest in the table
MaxId(table) ==
    IF table = {} THEN 0
    ELSE LET r == CHOOSE r \in table : \A q \in table : q.id <= r.id
         IN  r.id

NextId(table) == MaxId(table) + 1

\* the UPDATEs a flush issues for the modified objects of the session
Flush(dirty) ==
    {IF \E d \in dirty : d.id = t.id THEN CHOOSE d \in dirty : d.id = t.id ELSE t :
        t \in transaction}

\* a variant of the teardown that leaves the session as the handler left it
keep_session(dirty) == dirty

\* Flask-SQLAlchemy's teardown at the end of every request: session.remove()
\* discards whatever the handler left uncommitted
shutdown_session(dirty) == {}

\* one request and its outcome; the tables change only through a commit
Respond(op, id, form, status, flash, body) ==
    /\ request' = [op |-> op, id |-> id, form |-> form]
    /\ response' = [status |-> status, flash |-> flash, body |-> body]
    /\ before' = [category |-> category, transaction |-> transaction, today |-> today]
    /\ today' = today

\* a request served from start to end with no other request in between
Reply(op, id, form, status, flash, body) ==
    /\ Respond(op, id, form, status, flash, body)
    /\ pending' = pending

NoWrite(dirty) ==
    /\ category' = category
    /\ transaction' = transaction
    /\ session' = shutdown_session(dirty)

\* a variant of Commit without the rollback: a failed commit keeps the
\* transaction rows already flushed
Commit_no_rollback(ok, cats, txs) ==
    /\ category' = IF ok THEN cats ELSE category
    /\ transaction' = txs
    /\ session' = {}

\* db.session.commit() inside try/except: either every pending write is
\* applied, or the except branch rolls all of them back
Commit(ok, cats, txs) ==
    /\ category' = IF ok THEN cats ELSE category
    /\ transaction' = IF ok THEN txs ELSE transaction
    /\ session' = shutdown_session({})

(***************************************************************************)
(* Handlers                                                                *)
(***************************************************************************)
\* a variant of new_transaction that stores the transaction without a category
\* when the category id does not resolve, instead of refusing the request
new_transaction_unchecked(form, ok) ==
    LET desc == strip(OrElse(form.description, << >>))
        amount == parse_float(form.amount, 0)
        date_str == OrElse(form.date, isoformat(today))
        dt == strptime(date_str)
        cat == GetCategory(OrElse(form.category, << >>))
        t == [id |-> NextId(Flush(session)), description |-> desc, amount |-> amount,
              date |-> dt[1],
              category_id |-> IF cat = None THEN None ELSE Some(cat[1].id)]
    IN  IF dt = None
        THEN /\ Reply("new_transaction", 0, form, 302, "Invalid date format. Use YYYY-MM-DD.", None)
             /\ NoWrite(session)
        ELSE /\ t.id <= MaxTxId
             /\ Reply("new_transaction", 0, form, 302,
                      IF ok THEN "Transaction added." ELSE "Failed to add transaction.", None)
             /\ Commit(ok, category, Flush(session) \cup {t})

new_transaction(form, ok) ==
    LET desc == strip(OrElse(form.description, << >>))
        amount == parse_float(form.amount, 0)
        date_str == OrElse(form.date, isoformat(today))
        dt == strptime(date_str)
        cat_id == OrElse(form.category, << >>)
        cat == GetCategory(cat_id)
        t == [id |-> NextId(Flush(session)), description |-> desc, amount |-> amount,
              date |-> dt[1],
              category_id |-> IF cat = None THEN None ELSE Some(cat[1].id)]
    IN  IF dt = None
        THEN /\ Reply("new_transaction", 0, form, 302, "Invalid date format. Use YYYY-MM-DD.", None)
             /\ NoWrite(session)
        ELSE IF cat_id # << >> /\ cat = None
        THEN /\ Reply("new_transaction", 0, form, 302, "Selected category not found.", None)
             /\ NoWrite(session)
        ELSE /\ t.id <= MaxTxId
             /\ Reply("new_transaction", 0, form, 302,
                      IF ok THEN "Transaction added." ELSE "Failed to add transaction.", None)
             /\ Commit(ok, category, Flush(session) \cup {t})

edit_transaction(tx_id, form, ok) ==
    LET found == GetTx(tx_id)
        tx == found[1]
        tx1 == [tx EXCEPT !.description = strip(OrElse(form.description, << >>)),
                          !.amount = parse_float(form.amount, tx.amount)]
        date_str == OrElse(form.date, isoformat(tx.date))
        dt == strptime(date_str)
        cat_id == OrElse(form.category, << >>)
        cat == IF cat_id # << >> THEN GetCategory(cat_id) ELSE None
        tx2 == [tx1 EXCEPT !.date = dt[1],
                           !.category_id = IF cat = None THEN None ELSE Some(cat[1].id)]
        others == {d \in session : d.id # tx_id}
    IN  IF found = None
        THEN /\ Reply("edit_transaction", tx_id, form, 404, "", None)
             /\ NoWrite(session)
        ELSE IF dt = None
        THEN /\ Reply("edit_transaction", tx_id, form, 302, "Invalid date format. Use YYYY-MM-DD.", None)
             /\ NoWrite(others \cup {tx1})
        ELSE /\ Reply("edit_transaction", tx_id, form, 302,
                      IF ok THEN "Transaction updated." ELSE "Failed to update transaction.", None)
             /\ Commit(ok, category, Flush(others \cup {tx2}))

delete_transaction(tx_id, ok) ==
    LET found == GetTx(tx_id)
    IN  IF found = None
        THEN /\ Reply("delete_transaction", tx_id, NoForm, 404, "", None)
             /\ NoWrite(session)
        ELSE /\ Reply("delete_transaction", tx_id, NoForm, 302,
                      IF ok THEN "Transaction deleted." ELSE "Failed to delete transaction.", None)
             /\ Commit(ok, category, {t \in Flush(session) : t.id # tx_id})

\* the store's UNIQUE constraint on category.name compares names exactly
UniqueViolation(name) == \E c \in category : c.name = name

add_category(form, ok) ==
    LET name == strip(OrElse(form.name, << >>))
        existing == \E c \in category : sql_lower(c.name) = py_lower(name)
        c == [id |-> NextId(category), name |-> name]
        done == ok /\ ~UniqueViolation(name)
    IN  IF name = << >>
        THEN /\ Reply("add_category", 0, form, 302, "Category name cannot be empty.", None)
             /\ NoWrite(session)
        ELSE IF existing
        THEN /\ Reply("add_category", 0, form, 302, "Category already exists.", None)
             /\ NoWrite(session)
        ELSE /\ c.id <= MaxCatId
             /\ Reply("add_category", 0, form, 302,
                      IF done THEN "Category added." ELSE "Failed to add category.", None)
             /\ Commit(done, category \cup {c}, Flush(session))

\* variants of Detach with a slip: nothing detached; everything detached
Detach_none(txs, cat_id) == txs

Detach_all(txs, cat_id) == {[t EXCEPT !.category_id = None] : t \in txs}

\* the loop over cat.transactions: every row whose category_id is the
\* category's id gets category = None, the other rows are not touched
Detach(txs, cat_id) ==
    {IF t.category_id = Some(cat_id) THEN [t EXCEPT !.category_id = None] ELSE t :
        t \in txs}

delete_category(cat_id, ok) ==
    LET found == Get(category, cat_id)
    IN  IF found = None
        THEN /\ Reply("delete_category", cat_id, NoForm, 404, "", None)
             /\ NoWrite(session)
        ELSE /\ Reply("delete_category", cat_id, NoForm, 302,
                      IF ok THEN "Category deleted." ELSE "Failed to delete category.", None)
             /\ Commit(ok, category \ {found[1]}, Detach(Flush(session), cat_id))

(***************************************************************************)
(* Read views                                                              *)
(***************************************************************************)
\* SQL SUM(amount) over a set of rows, 0 standing for "NULL or 0.0"
RECURSIVE Sum(_)
Sum(rows) ==
    IF rows = {} THEN 0
    ELSE LET r == CHOOSE r \in rows : TRUE
         IN  r.amount + Sum(rows \ {r})

\* a variant of income_of without its filter
income_of_unfiltered(txs) == Sum(txs)

income_of(txs) == Sum({t \in txs : t.amount > 0})

expenses_of(txs) == Sum({t \in txs : t.amount < 0})

index ==
    /\ Reply("index", 0, NoForm, 200, "",
             Some([income |-> income_of(transaction),
                   expenses |-> expenses_of(transaction)]))
    /\ NoWrite(session)

\* totals.get(label, 0.0): the sum of the amounts of the month, 0.0 without rows
month_total(txs, label) == Sum({t \in txs : strftime_Ym(t.date) = label})

api_summary ==
    /\ Reply("api_summary", 0, NoForm, 200, "",
             Some([labels |-> labels(today),
                   data |-> [i \in 1..6 |-> month_total(transaction, labels(today)[i])]]))
    /\ NoWrite(session)

\* a call of parse_float on its own
call_parse_float ==
    /\ Reply("parse_float", request.id, request.form, 200, "",
             Some(parse_float(request.form.amount, request.id)))
    /\ NoWrite(session)

\* the calendar moves on to the next month
FirstYear == 1998
LastYear == 2030

Tick ==
    /\ today[1] < LastYear \/ today[2] < 12
    /\ today' = IF today[2] = 12 THEN <<today[1] + 1, 1, today[3]>>
                ELSE <<today[1], today[2] + 1, today[3]>>
    /\ UNCHANGED <<category, transaction, session, request, response, before, pending>>

(***************************************************************************)
(* Request inputs of the model                                             *)
(***************************************************************************)
TxForms(D, A, T, C) ==
    [description : D, amount : A, date : T, category : C, name : {None}]

NameForms(N) ==
    [description : {None}, amount : {None}, date : {None}, category : {None}, name : N]

\* form values naming the category ids 1 .. n
IdTexts(n) == {Some(IntStr(i)) : i \in 1..n}

Handlers(forms, names) ==
    \/ \E f \in forms, ok \in BOOLEAN : new_transaction(f, ok)
    \/ \E id \in 1..MaxTxId, f \in forms, ok \in BOOLEAN : edit_transaction(id, f, ok)
    \/ \E id \in 1..MaxTxId, ok \in BOOLEAN : delete_transaction(id, ok)
    \/ \E f \in NameForms(names), ok \in BOOLEAN : add_category(f, ok)
    \/ \E id \in 1..MaxCatId, ok \in BOOLEAN : delete_category(id, ok)

Start ==
    /\ category = {}
    /\ transaction = {}
    /\ session = {}
    /\ request = [op |-> "start", id |-> 0, form |-> NoForm]
    /\ response = [status |-> 200, flash |-> "", body |-> None]
    /\ before = [category |-> {}, transaction |-> {}, today |-> today]
    /\ pending = NonePending

Ten == Some(<<" ", "1", "0", " ">>)
MinusFiftyPointFive == Some(<<"-", "5", "0", ".", "5">>)
Bad == Some(<<"b", "a", "d">>)
Blank == Some(<<" ">>)
Empty == Some(<< >>)

\* Spec: the ledger, with the inputs that decide a transaction's category and
\* a category's name
LedgerForms == TxForms({None}, {Ten}, {None}, {None} \cup IdTexts(MaxCatId + 1))

LedgerNames ==
    {Some(<<" ", "F">>), Some(<<"f">>), Some(<<"U+00C9">>), Some(<<"U+00E9">>), Blank}

Init == today = <<2025, 3, 15>> /\ Start

Next == Handlers(LedgerForms, LedgerNames)

Spec == Init /\ [][Next]_vars

(***************************************************************************)
(* Properties of the ledger (Spec)                                         *)
(***************************************************************************)
Succeeded(op, flash) == request.op = op /\ response.flash = flash

Mutating ==
    {"new_transaction", "edit_transaction", "delete_transaction",
     "add_category", "delete_category"}

CommitFailed ==
    /\ request.op \in Mutating
    /\ response.flash \in {"Failed to add transaction.", "Failed to update transaction.",
                           "Failed to delete transaction.", "Failed to add category.",
                           "Failed to delete category."}

\* C1: in every reachable state every stored transaction's category reference
\* is absent or is the id of a category that exists; no transaction points at
\* a deleted category.
C1_ReferentialIntegrity ==
    \A t \in transaction :
        t.category_id = None \/ \E c \in category : t.category_id = Some(c.id)

\* a category that transactions referenced has just been deleted, and another
\* transaction still references a category
C1_Witness ==
    /\ Succeeded("delete_category", "Category deleted.")
    /\ \E b \in before.transaction : b.category_id = Some(request.id)
    /\ \E t \in transaction : t.category_id # None

\* C2: a successful deleteCategory(c) detaches: c leaves the category table,
\* every other category stays, the same transactions exist with the same
\* description, amount and date, those that referenced c have no category and
\* the others keep theirs.
C2_DeleteCategoryDetaches ==
    Succeeded("delete_category", "Category deleted.") =>
        /\ category = {c \in before.category : c.id # request.id}
        /\ Cardinality(category) = Cardinality(before.category) - 1
        /\ Cardinality(transaction) = Cardinality(before.transaction)
        /\ \A b \in before.transaction :
              \E t \in transaction :
                  /\ t.id = b.id
                  /\ t.description = b.description
                  /\ t.amount = b.amount
                  /\ t.date = b.date
                  /\ t.category_id =
                        IF b.category_id = Some(request.id) THEN None ELSE b.category_id

\* the deleted category was referenced by every transaction there is (N = 2)
C2_Witness ==
    /\ Succeeded("delete_category", "Category deleted.")
    /\ Cardinality(before.transaction) = 2
    /\ \A b \in before.transaction : b.category_id = Some(request.id)
    /\ category # {}

\* equality of two names under case-insensitive comparison, spelled out for
\* the letters of the model
SameLetter(a, b) ==
    \/ a = b
    \/ {a, b} = {"F", "f"}
    \/ {a, b} = {"U+00C9", "U+00E9"}

EqualIgnoringCase(s, t) ==
    Len(s) = Len(t) /\ \A i \in 1..Len(s) : SameLetter(s[i], t[i])

\* C3: category names stay case-insensitively unique under sequential
\* requests: no two stored categories share a name ignoring case.
C3_NamesUniqueIgnoringCase ==
    \A c1, c2 \in category : c1.id # c2.id => ~EqualIgnoringCase(c1.name, c2.name)

\* C8: every mutating operation is all-or-nothing: when its commit fails both
\* tables are what they were before the request; a failed deleteCategory
\* leaves the category present and its transactions attached.
C8_FailedCommitChangesNothing ==
    CommitFailed =>
        /\ category = before.category
        /\ transaction = before.transaction

\* the commit of a deleteCategory failed while a transaction referenced the category
C8_Witness ==
    /\ Succeeded("delete_category", "Failed to delete category.")
    /\ \E c \in category : c.id = request.id
    /\ \E t \in transaction : t.category_id = Some(request.id)

(***************************************************************************)
(* SpecAmount: the ledger with the amount texts varied, and the totals     *)
(***************************************************************************)
AmountForms ==
    TxForms({None}, {None, Empty, Blank, Bad, Ten, MinusFiftyPointFive}, {None}, {None})

AmountNames == {Some(<<"f">>)}

NextAmount == Handlers(AmountForms, AmountNames) \/ index

SpecAmount == Init /\ [][NextAmount]_vars

Abs(n) == IF n < 0 THEN 0 - n ELSE n

IndexShown == request.op = "index" /\ response.body # None

\* C5 as stated: income minus the magnitude of expenses is the algebraic sum
\* of all amounts, and the income and the expenses value returned are each
\* non-negative.
C5_Original ==
    IndexShown =>
        LET b == response.body[1]
        IN  /\ b.income - Abs(b.expenses) = Sum(transaction)
            /\ b.income >= 0
            /\ b.expenses >= 0

\* C5 amended: income minus the magnitude of expenses is the algebraic sum of
\* all amounts, income is non-negative, and the expenses value returned (the
\* sum of the negative amounts) is non-positive.
C5_Totals ==
    IndexShown =>
        LET b == response.body[1]
        IN  /\ b.income - Abs(b.expenses) = Sum(transaction)
            /\ b.income >= 0
            /\ b.expenses <= 0

\* the totals of a ledger holding an income and an expense
C5_Witness ==
    /\ IndexShown
    /\ response.body[1].income > 0
    /\ response.body[1].expenses < 0

\* the amount an edit has to store, told from the text as written: the two
\* numeric texts of the model have their value, every other text (absent,
\* empty, blank, letters) keeps the prior amount
ExpectedAmount(value, prior) ==
    CASE value = Ten -> 1000
      [] value = MinusFiftyPointFive -> 0 - 5050
      [] OTHER -> prior

\* C7: a successful editTransaction whose amount text is absent, empty,
\* whitespace-only or non-numeric leaves the stored amount as it was before
\* the edit (never 0.0 in its place); a parseable amount text replaces it.
C7_EditAmountFallsBack ==
    Succeeded("edit_transaction", "Transaction updated.") =>
        \A b \in before.transaction :
            b.id = request.id =>
                \E t \in transaction :
                    /\ t.id = b.id
                    /\ t.amount = ExpectedAmount(request.form.amount, b.amount)

\* a non-numeric amount text edited onto a transaction whose amount is not zero
C7_Witness ==
    /\ Succeeded("edit_transaction", "Transaction updated.")
    /\ request.form.amount = Bad
    /\ \E b \in before.transaction : b.id = request.id /\ b.amount = 0 - 5050
    /\ \E t \in transaction : t.id = request.id /\ t.amount = 0 - 5050

(***************************************************************************)
(* SpecDate: the ledger with the date and category texts varied            *)
(***************************************************************************)
LenientDate == Some(<<"2", "0", "2", "5", "-", "1", "-", "5">>)
NoSuchDay == Some(<<"2", "0", "2", "5", "-", "0", "2", "-", "3", "0">>)

DateForms ==
    {f \in TxForms({None, Some(<<" ", "L">>)}, {Ten, MinusFiftyPointFive},
                   {None, LenientDate, NoSuchDay, Bad}, {None} \cup IdTexts(1)) :
        f.description = None <=> f.amount = MinusFiftyPointFive}

DateNames == {Some(<<"f">>)}

NextDate == Handlers(DateForms, DateNames)

SpecDate == Init /\ [][NextDate]_vars

\* the date texts of the model that are no date: a day the month does not
\* have, and letters
MalformedDates == {NoSuchDay, Bad}

Unchanged == category = before.category /\ transaction = before.transaction

\* the category text of the request names no category that existed
CategoryUnresolved ==
    /\ request.form.category \notin {None, Empty}
    /\ \A c \in before.category : IntStr(c.id) # request.form.category[1]

\* C4: addTransaction writes nothing when validation fails: with a date text
\* that is supplied and is no date (InvalidDate), or a category id that is
\* supplied and resolves to no category (CategoryNotFound), no transaction is
\* persisted and both tables are as before the request.
C4_RejectedAddWritesNothing ==
    /\ (request.op = "new_transaction" /\ request.form.date \in MalformedDates) =>
          response.flash = "Invalid date format. Use YYYY-MM-DD." /\ Unchanged
    /\ (request.op = "new_transaction" /\ CategoryUnresolved) =>
          /\ response.flash \in {"Invalid date format. Use YYYY-MM-DD.",
                                 "Selected category not found."}
          /\ Unchanged

\* an add with a good date and a category id that resolves to nothing, on a
\* ledger that holds a transaction
C4_Witness ==
    /\ request.op = "new_transaction"
    /\ request.form.date = LenientDate
    /\ CategoryUnresolved
    /\ response.flash = "Selected category not found."
    /\ transaction # {}

\* the transaction a request is about (none for an add and for the category
\* requests)
Target == IF request.op \in {"edit_transaction", "delete_transaction"} THEN request.id ELSE 0

\* C10: editTransaction with a supplied, malformed date text changes nothing:
\* the description and amount the handler had already assigned are not
\* persisted, and no later request commits them: every request leaves the
\* transactions it is not about as they were.
C10_BadDateEditChangesNothing ==
    /\ (request.op = "edit_transaction" /\ request.form.date \in MalformedDates
            /\ response.status # 404) =>
          /\ response.flash = "Invalid date format. Use YYYY-MM-DD."
          /\ Unchanged
          /\ session = {}
    /\ (request.op \in Mutating \ {"delete_category"}) =>
          \A b \in before.transaction : b.id # Target => b \in transaction

\* an edit with a malformed date whose description and amount both differ
\* from the stored ones
C10_Witness ==
    /\ request.op = "edit_transaction"
    /\ request.form.date = NoSuchDay
    /\ request.form.description = Some(<<" ", "L">>)
    /\ request.form.amount = Ten
    /\ \E b \in before.transaction :
          b.id = request.id /\ b.description = << >> /\ b.amount = 0 - 5050

(***************************************************************************)
(* SpecParse: parse_float on its own, over padded texts                    *)
(***************************************************************************)
\* the most spaces put on either side of a text
MaxPad == 2

Spaces(n) == [i \in 1..n |-> " "]

Padded(core) == {Spaces(l) \o core \o Spaces(r) : l, r \in 0..MaxPad}

\* numeric texts with their values (in hundredths), and texts that are no number
NumericCores ==
    {[text |-> <<"1", "0", "0">>, value |-> 10000],
     [text |-> <<"-", "5", "0", ".", "5">>, value |-> 0 - 5050],
     [text |-> <<"1", "2", "3", ".", "4", "5">>, value |-> 12345],
     [text |-> <<"+", "7">>, value |-> 700],
     [text |-> <<"0">>, value |-> 0]}

OtherCores ==
    {<< >>, <<"b", "a", "d">>, <<"a", "b", "d">>, <<"-">>, <<"1", " ", "0">>,
     <<"1", ".", "2", ".", "3">>}

ParseInputs ==
    {None} \cup {Some(t) : t \in UNION {Padded(c.text) : c \in NumericCores}}
           \cup {Some(t) : t \in UNION {Padded(c) : c \in OtherCores}}

ParseDefaults == {0, 1000, 9900}

\* request.form.amount holds the value, request.id the default
InitParse ==
    /\ category = {}
    /\ transaction = {}
    /\ session = {}
    /\ today = <<2025, 3, 15>>
    /\ \E v \in ParseInputs, d \in ParseDefaults :
          request = [op |-> "start", id |-> d, form |-> [NoForm EXCEPT !.amount = v]]
    /\ response = [status |-> 200, flash |-> "", body |-> None]
    /\ before = [category |-> {}, transaction |-> {}, today |-> today]
    /\ pending = NonePending

NextParse == call_parse_float

SpecParse == InitParse /\ [][NextParse]_vars

\* what the claim has parse_float return: the value of the number the text
\* holds between its spaces, the default for every other input
ExpectedFloat(value, default) ==
    IF \E c \in NumericCores : value # None /\ value[1] \in Padded(c.text)
    THEN (CHOOSE c \in NumericCores : value[1] \in Padded(c.text)).value
    ELSE default

\* C9: parse_float is total: for every input (None, empty, whitespace only,
\* non-numeric, numeric with surrounding whitespace) it returns a value; the
\* caller's default exactly when the trimmed input is absent, empty or
\* non-numeric, the parsed number otherwise.
C9_ParseFloatTotal ==
    request.op = "parse_float" =>
        /\ response.body # None
        /\ response.body[1] = ExpectedFloat(request.form.amount, request.id)

\* parse_float("  100  ") with a default of 99.0 has returned 100.0
C9_Witness ==
    /\ request.op = "parse_float"
    /\ request.form.amount = Some(<<" ", " ", "1", "0", "0", " ", " ">>)
    /\ request.id = 9900
    /\ response.body = Some(10000)

(***************************************************************************)
(* SpecTrend: api_summary over the months of the calendar                  *)
(***************************************************************************)
InitTrend ==
    /\ category = {}
    /\ transaction =
          {[id |-> 1, description |-> << >>, amount |-> 1000, date |-> <<2024, 12, 31>>,
            category_id |-> None],
           [id |-> 2, description |-> << >>, amount |-> 0 - 5050, date |-> <<2025, 1, 5>>,
            category_id |-> None]}
    /\ session = {}
    /\ \E y \in FirstYear..LastYear, m \in 1..12 : today = <<y, m, 15>>
    /\ request = [op |-> "start", id |-> 0, form |-> NoForm]
    /\ response = [status |-> 200, flash |-> "", body |-> None]
    /\ before = [category |-> {}, transaction |-> transaction,
                  today |-> today]
    /\ pending = NonePending

NextTrend == api_summary \/ Tick

SpecTrend == InitTrend /\ [][NextTrend]_vars

\* a label read as "YYYY-MM": four digits, a hyphen, two digits naming a month
IsYearMonth(l) ==
    /\ Len(l) = 7
    /\ \A i \in {1, 2, 3, 4, 6, 7} : l[i] \in Digits
    /\ l[5] = "-"
    /\ DigitsVal(SubSeq(l, 6, 7)) \in 1..12

LabelYear(l) == DigitsVal(SubSeq(l, 1, 4))

LabelMonth(l) == DigitsVal(SubSeq(l, 6, 7))

\* months counted from year 0
MonthNumber(y, m) == y * 12 + m

SummaryShown == request.op = "api_summary" /\ response.body # None

\* C6: for every current date (before.today, the date of the request) the labels are exactly 6 entries in YYYY-MM
\* form, the last is the current month, each entry is the calendar month
\* right after the one before it, and the first falls in the previous year
\* when the current month is January to May.
C6_SixConsecutiveMonths ==
    SummaryShown =>
        LET l == response.body[1].labels
        IN  /\ Len(l) = 6
            /\ \A i \in 1..6 : IsYearMonth(l[i])
            /\ LabelYear(l[6]) = before.today[1] /\ LabelMonth(l[6]) = before.today[2]
            /\ \A i \in 1..5 :
                  MonthNumber(LabelYear(l[i + 1]), LabelMonth(l[i + 1]))
                      = MonthNumber(LabelYear(l[i]), LabelMonth(l[i])) + 1
            /\ before.today[2] <= 5 => LabelYear(l[1]) = before.today[1] - 1

\* the summary of a January: the labels start in August of the year before
C6_Witness ==
    /\ SummaryShown
    /\ before.today[2] = 1
    /\ LabelMonth(response.body[1].labels[1]) = 8
    /\ LabelYear(response.body[1].labels[1]) = before.today[1] - 1

(***************************************************************************)
(* SpecConcurrent: add_category requests served by threads of the server.  *)
(* Each thread has its own session; the SELECT of the duplicate check and  *)
(* the INSERT with its commit are two statements against the store, and    *)
(* another thread's statements may run between them.  The names are ASCII  *)
(* only, so the two lower-casings of the check agree on all of them.       *)
(***************************************************************************)
ConcurrentNames == {Some(<<"F">>), Some(<<"f">>), Some(<<" ", "f">>), Blank}

\* add_category up to the duplicate check: the SELECT runs against the rows
\* committed so far; a request that passes it goes on to its INSERT
add_category_check(w, form) ==
    LET name == strip(OrElse(form.name, << >>))
        existing == \E c \in category : sql_lower(c.name) = py_lower(name)
    IN  /\ pending[w] = None
        /\ IF name = << >>
           THEN /\ Respond("add_category", w, form, 302, "Category name cannot be empty.", None)
                /\ NoWrite(session)
                /\ pending' = pending
           ELSE IF existing
           THEN /\ Respond("add_category", w, form, 302, "Category already exists.", None)
                /\ NoWrite(session)
                /\ pending' = pending
           ELSE /\ pending' = [pending EXCEPT ![w] = Some(form)]
                /\ UNCHANGED <<category, transaction, session, today, request, response,
                               before>>

\* add_category from db.session.add to the redirect: the INSERT meets only the
\* store's UNIQUE constraint, which compares names exactly
add_category_insert(w, ok) ==
    LET form == pending[w][1]
        name == strip(OrElse(form.name, << >>))
        c == [id |-> NextId(category), name |-> name]
        done == ok /\ ~UniqueViolation(name)
    IN  /\ pending[w] # None
        /\ c.id <= MaxCatId
        /\ Respond("add_category", w, form, 302,
                   IF done THEN "Category added." ELSE "Failed to add category.", None)
        /\ Commit(done, category \cup {c}, Flush(session))
        /\ pending' = [pending EXCEPT ![w] = None]

NextConcurrent ==
    \/ \E w \in Workers, f \in NameForms(ConcurrentNames) : add_category_check(w, f)
    \/ \E w \in Workers, ok \in BOOLEAN : add_category_insert(w, ok)
    \/ \E id \in 1..MaxCatId, ok \in BOOLEAN : delete_category(id, ok)

SpecConcurrent == Init /\ [][NextConcurrent]_vars

\* C11: case-insensitive uniqueness of category names under interleaving: two
\* concurrent addCategory requests cannot both succeed with names that are
\* equal ignoring case; in no reachable state do two stored categories share
\* a name under case-insensitive comparison.
C11_UniqueUnderInterleaving ==
    ~\E c1, c2 \in category : c1 # c2 /\ EqualIgnoringCase(c1.name, c2.name)

====
